---- MODULE Spec2Model ----
(***************************************************************************)
(* Model of the generation job runner, the design orchestrator and the     *)
(* server-sent-event hub of the floor-plan backend                         *)
(* (routes/api.routes.ts, orchestrator/design.orchestrator.ts,             *)
(* memory/session.memory.ts, scoring/plan.scorer.ts).                      *)
(*                                                                         *)
(* One job is followed from POST /generate to the end of its run.  The     *)
(* server is a single-threaded event loop: a handler or the continuation   *)
(* of an await runs to completion, so stream requests and 'close' events   *)
(* are only taken while the orchestrator is suspended at an await, and the *)
(* synchronous code between two awaits is one action.                      *)
(*                                                                         *)
(* A subscriber sink (an express Response) is outside the repository.  A   *)
(* write to a broken sink either loses the data or raises an exception;    *)
(* the model takes both outcomes.  Which write of a synchronous block is   *)
(* the first to fail only changes the length of the prefix delivered, so a *)
(* sink breaks at an await or, for the one write that follows the job's    *)
(* status update, right before the terminal broadcast.                     *)
(*                                                                         *)
(* Scores are in tenths (sub-scores) and hundredths (final score), so the  *)
(* weights 0.4/0.3/0.2/0.1 are the integers 4/3/2/1 and the threshold 0.70 *)
(* is 70.                                                                  *)
(*                                                                         *)
(* Spec follows that one job.  The other specifications look at one        *)
(* component each: StoreSpec at the job store as a map of several jobs     *)
(* (memory/session.memory.ts), PostSpec at the validation of POST          *)
(* /generate, CallSpec at one LLM call with its fallback chain, ScoreSpec, *)
(* AreaSpec and VastuSpec at the scorer, the two built-up-area sums and    *)
(* the Vastu validator on inputs drawn from bounded sets.  CancelSpec and  *)
(* LiveSpec add to Spec the two things the environment can do to a run: a  *)
(* cancel request and an LLM call that never answers.                      *)
(* RegSpec and DirSpec look at validateRegulatory and computeDirection on  *)
(* inputs drawn from bounded sets (lengths in units of 0.05 m), AltSpec at *)
(* the handler of POST /generate-alternatives with its three concurrent    *)
(* orchestrations on one response stream.                                  *)
(***************************************************************************)
EXTENDS Integers, Sequences, FiniteSets, TLC

\* ---------------------------------------------------------------- bounds
\* stream requests served for the job
MaxSubs == 2
\* capacity of the job store (MAX_SESSIONS, 1000 in session.memory.ts)
MaxSessions == 2
\* rooms of a plan given to the validators
MaxRooms == 4
\* progress events one orchestration of /generate-alternatives emits
MaxProgress == 2

\* ------------------------------------------------------ program constants
MAX_ITERATIONS == 3
DEFAULT_THRESHOLD == 70
MAX_SESSIONS == MaxSessions
\* 30 * 60 * 1000 ms; the clock of the job store counts half hours
TTL_MS == 1

Subs == 1..MaxSubs

\* (regulatoryScore, vastuScore) a validated plan can get, in tenths
PlanCases == { <<7, 7>> }
\* (spatialEfficiency, overallConfidence) the critic can return, in tenths
CriticCases == { <<7, 7>>, <<7, 6>>, <<10, 10>> }

VARIABLES
  pc,          \* position of the job runner / orchestrator
  stored,      \* the job is in the jobs map
  status,      \* job.status
  error,       \* job.error ("" = undefined)
  result,      \* job.result (NoResult = undefined)
  progress,    \* job.progress
  expired,     \* Date.now() - job.createdAt > TTL_MS
  i,           \* loop variable of the iteration loop
  iterations,  \* orchestrate's iterations array
  currentPlan, \* version of currentPlan: 0 = Spatial output, k = k-th refinement
  planScore,   \* <<regulatory, vastu>> scores of currentPlan
  finalScore,  \* orchestrate's finalScore (PlanScore) of the last scored iteration
  converged,   \* orchestrate's converged flag
  costData,    \* data of the Cost agent's result
  furniture,   \* allFurniture is non-empty
  sseClients,  \* sseClients.get(jobId): the Set, in insertion order
  nextSub,     \* next fresh Response object
  conn,        \* per Response: "none", "open", "ended", "closed", "notfound"
  sink,        \* per Response: "ok", "dead" (writes are lost), "throws"
  received,    \* per intact connection: the events written to its Response
  attachedAt,  \* per intact connection: Len(emitted) when the request was served
  emitted,     \* history: every event handed to broadcastSSE, in order
  agentRuns,   \* history: agents whose execute() was called, in order
  rejected,    \* history: agents whose execute() rejected
  reply,       \* HTTP status of the answer to POST /generate (0 = none yet)
  config,      \* req.body of the last POST /generate
  cancelFlag,  \* a cancel request was made for the running job
  hung,        \* the LLM call the orchestrator awaits will never answer
  jobs,        \* the jobs Map: its entries in insertion order
  now,         \* Date.now() of the job store, in half hours
  lastOp,      \* the last call of the job store and what it returned
  call,        \* one agent's LLM call: role, position in the fallback chain
  completeModel, \* `model` of the agent_complete event of that agent
  scoreIn,     \* the four arguments of scorePlan, in tenths
  scoreOut,    \* the PlanScore scorePlan returned
  areaRooms,   \* rooms of a plan: type and area
  planBuiltUp, \* builtUpArea of the FloorPlanGraph (-1 = not computed)
  regBuiltUp,  \* builtUpArea inside validateRegulatory (-1 = not computed)
  vastuRooms,  \* rooms of a plan: classification and direction
  vastuStrictness, \* the strictness validateVastu was called with
  vastuResult, \* what validateVastu returned
  regRooms,    \* rooms of a plan as validateRegulatory reads them
  regFloors,   \* the floors argument of validateRegulatory
  regResult,   \* what validateRegulatory returned
  dirPoint,    \* << centerX, centerY >> given to computeDirection
  dirResult,   \* what computeDirection returned ("" = not called)
  altHandler,  \* position of the handler of POST /generate-alternatives
  altPc,       \* per strategy index: position of its async callback
  altResults,  \* the results array: per index a plan or NoPlan (a hole)
  altStream,   \* history: the events res.write accepted, in order
  altRes,      \* the Response: "none", "json400", "open", "ended"
  altSink,     \* the Response's socket: "ok", "dead", "throws"
  altProgress  \* per index: progress events its orchestration has emitted

runVars == << pc, stored, status, error, result, progress, expired,
              i, iterations, currentPlan, planScore, finalScore, converged,
              costData, furniture, sseClients, nextSub, conn, sink, received,
              attachedAt, emitted, agentRuns, rejected >>

postVars  == << reply, config >>
envVars   == << cancelFlag, hung >>
storeVars == << jobs, now, lastOp >>
callVars  == << call, completeModel >>
scoreVars == << scoreIn, scoreOut >>
areaVars  == << areaRooms, planBuiltUp, regBuiltUp >>
vastuVars == << vastuRooms, vastuStrictness, vastuResult >>
regVars   == << regRooms, regFloors, regResult >>
dirVars   == << dirPoint, dirResult >>
altVars   == << altHandler, altPc, altResults, altStream, altRes, altSink,
               altProgress >>

\* what the actions of one component leave alone
notStore == << runVars, postVars, envVars, callVars, scoreVars, areaVars, vastuVars,
              regVars, dirVars, altVars >>
notCall  == << runVars, postVars, envVars, storeVars, scoreVars, areaVars, vastuVars,
              regVars, dirVars, altVars >>
notScore == << runVars, postVars, envVars, storeVars, callVars, areaVars, vastuVars,
              regVars, dirVars, altVars >>
notArea  == << runVars, postVars, envVars, storeVars, callVars, scoreVars, vastuVars,
              regVars, dirVars, altVars >>
notVastu == << runVars, postVars, envVars, storeVars, callVars, scoreVars, areaVars,
              regVars, dirVars, altVars >>
notReg   == << runVars, postVars, envVars, storeVars, callVars, scoreVars, areaVars,
              vastuVars, dirVars, altVars >>
notDir   == << runVars, postVars, envVars, storeVars, callVars, scoreVars, areaVars,
              vastuVars, regVars, altVars >>
\* the handler of /generate-alternatives calls createJob
notAlt   == << runVars, postVars, envVars, now, callVars, scoreVars, areaVars,
              vastuVars, regVars, dirVars >>

\* what the actions of the job's run leave alone
otherVars == << envVars, storeVars, callVars, scoreVars, areaVars, vastuVars,
               regVars, dirVars, altVars >>

vars == << runVars, postVars, otherVars >>

jobVars  == << stored, status, error, result, progress >>
orchVars == << i, iterations, currentPlan, planScore, finalScore, converged,
               costData, furniture >>
hubVars  == << sseClients, nextSub, conn, sink, received, attachedAt >>

\* ------------------------------------------------------------------ values
NoPlan == [rooms |-> -1, iteration |-> 0, bom |-> "none", cost |-> "none", furniture |-> FALSE]

NoScore == [finalScore |-> -1, passesThreshold |-> FALSE]

NoResult == [finalPlan |-> NoPlan, finalScore |-> NoScore, converged |-> FALSE, iterations |-> 0]

NoProgress == [phase |-> "", iteration |-> 0, agentName |-> ""]

\* an event {type, data}; the fields of data that an event does not carry
\* keep the values below
Event(t) ==
  [type |-> t, agent |-> "", iteration |-> 0, score |-> 0, passes |-> FALSE,
   converged |-> FALSE, count |-> 0, plan |-> NoPlan, message |-> "", status |-> ""]

AgentStart(a) == [Event("agent_start") EXCEPT !.agent = a]

AgentComplete(a) == [Event("agent_complete") EXCEPT !.agent = a]

IterationStart(n) == [Event("iteration_start") EXCEPT !.iteration = n]

\* data = {iteration, vastuViolations, vastuScore} or
\*        {iteration, regulatoryViolations, regulatoryScore}
ViolationUpdate(n, which, sc) ==
  [Event("violation_update") EXCEPT !.iteration = n, !.message = which, !.score = sc]

ScoreUpdate(n, s) ==
  [Event("score_update") EXCEPT !.iteration = n, !.score = s.finalScore,
                                !.passes = s.passesThreshold]

\* the orchestrator's own `completed` progress event: no finalPlan
OrchCompleted(s, cv, n) ==
  [Event("completed") EXCEPT !.score = s.finalScore, !.converged = cv, !.count = n]

\* the terminal `completed` event built from an OrchestrationResult
TerminalCompleted(r) ==
  [Event("completed") EXCEPT !.plan = r.finalPlan, !.score = r.finalScore.finalScore,
                             !.converged = r.converged, !.count = r.iterations]

ErrorEvent(m) == [Event("error") EXCEPT !.message = m]

Connected(st) == [Event("connected") EXCEPT !.status = st]

IsTerminal(e) == e.type \in {"completed", "error"}


\* ----------------------------------------------------------- plan.scorer
\* scorePlan: finalScore = 0.4*reg + 0.3*vastu + 0.2*eff + 0.1*conf,
\* passesThreshold = finalScore >= threshold
scorePlan(regulatoryScore, vastuScore, spatialEfficiency, criticConfidence) ==
  LET fs == 4 * regulatoryScore + 3 * vastuScore + 2 * spatialEfficiency
            + 1 * criticConfidence
  IN [finalScore |-> fs, passesThreshold |-> (fs >= DEFAULT_THRESHOLD)]

\* ------------------------------------------------------------ the SSE hub
\* the for-of loop of broadcastSSE: write msg to each client in insertion
\* order; a write that throws ends the loop and the exception propagates
RECURSIVE WriteAll(_, _, _)
WriteAll(clients, msg, rcv) ==
  IF clients = << >> THEN [rcv |-> rcv, threw |-> FALSE]
  ELSE LET c == Head(clients)
       IN CASE sink[c] = "throws" -> [rcv |-> rcv, threw |-> TRUE]
            [] sink[c] = "dead"   -> WriteAll(Tail(clients), msg, rcv)
            [] OTHER -> WriteAll(Tail(clients), msg, [rcv EXCEPT ![c] = Append(@, msg)])

broadcastSSE(event, rcv) == WriteAll(sseClients, event, rcv)

addSSEClient(clients, res) == Append(clients, res)

removeSSEClient(clients, res) == SelectSeq(clients, LAMBDA c : c # res)

\* ------------------------------------------------------------- job store
\* the progress patch of the onProgress callback:
\* {phase: event.type, iteration: event.data.iteration || 0, agentName: event.data.agent}
ProgressOf(ev) == [phase |-> ev.type, iteration |-> ev.iteration, agentName |-> ev.agent]

\* getJob: a job older than the TTL that is not running is deleted
GetJobDeletes == stored /\ expired /\ status # "running"

\* ------------------------------------------------------- the orchestrator
AwaitLabels == {"awaitInput", "awaitSpatial", "awaitCritic", "awaitRefine",
                "awaitCost", "awaitFurniture"}

\* the points where the event loop can run another handler
Quiescent == pc \in AwaitLabels \cup {"idle", "done"}

AgentOf(label) ==
  CASE label = "awaitInput"     -> "InputAgent"
    [] label = "awaitSpatial"   -> "SpatialAgent"
    [] label = "awaitCritic"    -> "CriticAgent"
    [] label = "awaitRefine"    -> "RefinementAgent"
    [] label = "awaitCost"      -> "CostAgent"
    [] label = "awaitFurniture" -> "FurnitureAgent"
    [] OTHER -> ""

\* emitProgress -> onProgress: updateJob(progress), then broadcastSSE; st is
\* the state of the synchronous block, st.threw an exception on its way out
emitProgress(st, ev) ==
  IF st.threw THEN st
  ELSE LET w == broadcastSSE(ev, st.rcv)
       IN [rcv |-> w.rcv, log |-> Append(st.log, ev),
           prog |-> IF stored THEN ProgressOf(ev) ELSE st.prog, threw |-> w.threw]

RECURSIVE EmitAll(_, _)
EmitAll(st, evs) ==
  IF evs = << >> THEN st ELSE EmitAll(emitProgress(st, Head(evs)), Tail(evs))

Block == [rcv |-> received, log |-> emitted, prog |-> progress, threw |-> FALSE]

\* the events orchestrate emits from iteration_start to the Critic call
IterationHead(n, ps) ==
  << IterationStart(n),
     ViolationUpdate(n, "vastu", ps[2]),
     ViolationUpdate(n, "regulatory", ps[1]),
     AgentStart("CriticAgent") >>

\* a loop without the break of the convergence check
LoopContinuesNoBreak(n, passes) == n < MAX_ITERATIONS

\* a loop that refines after its last iteration too
LoopContinuesOnLast(n, passes) == ~passes

\* the loop goes on to the Refinement agent and a further iteration
LoopContinues(n, passes) == ~passes /\ n < MAX_ITERATIONS

\* a catch block that records the failure and broadcasts nothing
CatchWithoutBroadcast(msg, st) ==
  /\ status' = IF stored THEN "failed" ELSE status
  /\ error' = IF stored THEN msg ELSE error
  /\ progress' = st.prog
  /\ received' = st.rcv
  /\ emitted' = st.log
  /\ pc' = "done"

\* the catch block of the job runner: updateJob(failed, err.message), then
\* broadcastSSE(error); an exception of that broadcast is an unhandled rejection
Catch(msg, st) ==
  LET ev == ErrorEvent(msg)
      w  == broadcastSSE(ev, st.rcv)
  IN /\ status' = IF stored THEN "failed" ELSE status
     /\ error' = IF stored THEN msg ELSE error
     /\ progress' = st.prog
     /\ received' = w.rcv
     /\ emitted' = Append(st.log, ev)
     /\ pc' = "done"

\* the synchronous block st ends by calling the agent awaited at label next,
\* or in the catch block when a write threw
Proceed(st, next) ==
  IF st.threw
  THEN /\ Catch("write failed", st)
       /\ UNCHANGED agentRuns
  ELSE /\ progress' = st.prog
       /\ received' = st.rcv
       /\ emitted' = st.log
       /\ pc' = next
       /\ agentRuns' = Append(agentRuns, AgentOf(next))
       /\ UNCHANGED << status, error >>

\* an agent's execute() rejects and nothing catches it inside orchestrate
AgentFails(label) ==
  /\ rejected' = rejected \cup {AgentOf(label)}
  /\ Catch(AgentOf(label), Block)
  /\ UNCHANGED << stored, result, expired, orchVars, sseClients, nextSub, conn,
                  sink, attachedAt, agentRuns >>

\* a field of the request body: << >> when it is missing, << n >> for the
\* number n
Dims == { << >>, << 0 >>, << -1 >>, << 2 >> }

\* the plot dimensions of the requests whose run Spec follows
RunDims == { << 2 >> }

\* !x of JavaScript for such a field
Falsy(x) == IF x = << >> THEN TRUE ELSE x[1] = 0

\* POST /generate with body {width: w, depth: d}: the 400 answer, or
\* createJob, then the runner up to its first await: updateJob(running),
\* orchestrate's first emit, inputAgent.execute
Generate(w, d) ==
  /\ pc = "idle"
  /\ ~stored
  /\ IF Falsy(w) \/ Falsy(d)
     THEN /\ reply' = 400
          /\ UNCHANGED runVars
     ELSE /\ reply' = 200
          /\ stored' = TRUE
          /\ LET st == emitProgress([rcv |-> received, log |-> emitted,
                                     prog |-> [phase |-> "queued", iteration |-> 0,
                                               agentName |-> ""],
                                     threw |-> FALSE],
                                    AgentStart("InputAgent"))
             IN /\ progress' = ProgressOf(AgentStart("InputAgent"))
                /\ received' = st.rcv
                /\ emitted' = st.log
          /\ status' = "running"
          /\ pc' = "awaitInput"
          /\ agentRuns' = Append(agentRuns, "InputAgent")
          /\ UNCHANGED << error, result, expired, orchVars, sseClients, nextSub,
                          conn, sink, attachedAt, rejected >>
  /\ config' = [width |-> w, depth |-> d]
  /\ UNCHANGED otherVars

InputDone(ok) ==
  /\ pc = "awaitInput"
  /\ ~hung
  /\ UNCHANGED << postVars, otherVars >>
  /\ IF ok
     THEN /\ Proceed(EmitAll(Block, << AgentComplete("InputAgent"),
                                       AgentStart("SpatialAgent") >>),
                     "awaitSpatial")
          /\ UNCHANGED << stored, result, expired, orchVars, sseClients, nextSub,
                          conn, sink, attachedAt, rejected >>
     ELSE AgentFails("awaitInput")

SpatialDone(ok, ps) ==
  /\ pc = "awaitSpatial"
  /\ ~hung
  /\ UNCHANGED << postVars, otherVars >>
  /\ IF ok
     THEN LET st == EmitAll(Block, << AgentComplete("SpatialAgent") >>
                                   \o IterationHead(1, ps))
          IN /\ currentPlan' = 0
             /\ planScore' = ps
             /\ i' = IF Len(st.log) > Len(emitted) + 1 THEN 1 ELSE i
             /\ Proceed(st, "awaitCritic")
             /\ UNCHANGED << stored, result, expired, iterations, finalScore,
                             converged, costData, furniture, sseClients, nextSub,
                             conn, sink, attachedAt, rejected >>
     ELSE AgentFails("awaitSpatial")

\* the rest of an iteration: score, score_update, iterations.push, the
\* convergence check and the call of the Refinement or the Cost agent
CriticDone(ok, cs) ==
  /\ pc = "awaitCritic"
  /\ ~hung
  /\ UNCHANGED << postVars, otherVars >>
  /\ IF ok
     THEN LET score  == scorePlan(planScore[1], planScore[2], cs[1], cs[2])
              st1    == EmitAll(Block, << AgentComplete("CriticAgent"),
                                          ScoreUpdate(i, score) >>)
              goesOn == LoopContinues(i, score.passesThreshold)
              st2    == emitProgress(st1, IF goesOn THEN AgentStart("RefinementAgent")
                                          ELSE AgentStart("CostAgent"))
          IN /\ finalScore' = IF Len(st1.log) > Len(emitted) + 1 \/ ~st1.threw
                              THEN score ELSE finalScore
             /\ iterations' = IF st1.threw THEN iterations
                              ELSE Append(iterations,
                                          [iteration |-> i, plan |-> currentPlan,
                                           score |-> score])
             /\ converged' = IF st1.threw THEN converged ELSE score.passesThreshold
             /\ Proceed(st2, IF goesOn THEN "awaitRefine" ELSE "awaitCost")
             /\ UNCHANGED << stored, result, expired, i, currentPlan, planScore,
                             costData, furniture, sseClients, nextSub, conn, sink,
                             attachedAt, rejected >>
     ELSE AgentFails("awaitCritic")

RefineDone(ok, ps) ==
  /\ pc = "awaitRefine"
  /\ ~hung
  /\ UNCHANGED << postVars, otherVars >>
  /\ IF ok
     THEN LET st == EmitAll(Block, << AgentComplete("RefinementAgent") >>
                                   \o IterationHead(i + 1, ps))
          IN /\ currentPlan' = currentPlan + 1
             /\ planScore' = ps
             /\ i' = IF Len(st.log) > Len(emitted) + 1 THEN i + 1 ELSE i
             /\ Proceed(st, "awaitCritic")
             /\ UNCHANGED << stored, result, expired, iterations, finalScore,
                             converged, costData, furniture, sseClients, nextSub,
                             conn, sink, attachedAt, rejected >>
     ELSE AgentFails("awaitRefine")

\* costAgent.execute is awaited outside any try block
CostDone(ok) ==
  /\ pc = "awaitCost"
  /\ ~hung
  /\ UNCHANGED << postVars, otherVars >>
  /\ IF ok
     THEN /\ costData' = [bom |-> "llm", cost |-> "llm"]
          /\ Proceed(EmitAll(Block, << AgentComplete("CostAgent"),
                                       AgentStart("FurnitureAgent") >>),
                     "awaitFurniture")
          /\ UNCHANGED << stored, result, expired, i, iterations, currentPlan,
                          planScore, finalScore, converged, furniture, sseClients,
                          nextSub, conn, sink, attachedAt, rejected >>
     ELSE AgentFails("awaitCost")

\* an assembly that takes the rooms from the first recorded plan
OrchestrationResultFirstPlan(furn) ==
  [finalPlan  |-> [rooms |-> IF iterations = << >> THEN currentPlan
                             ELSE iterations[1].plan,
                   iteration |-> IF iterations = << >> THEN 0
                                 ELSE iterations[Len(iterations)].iteration,
                   bom |-> costData.bom, cost |-> costData.cost,
                   furniture |-> furn],
   finalScore |-> finalScore,
   converged  |-> converged,
   iterations |-> Len(iterations)]

\* the OrchestrationResult orchestrate returns
OrchestrationResult(furn) ==
  [finalPlan  |-> [rooms |-> currentPlan,
                   iteration |-> IF iterations = << >> THEN 0
                                 ELSE iterations[Len(iterations)].iteration,
                   bom |-> costData.bom, cost |-> costData.cost,
                   furniture |-> furn],
   finalScore |-> finalScore,
   converged  |-> converged,
   iterations |-> Len(iterations)]

\* furnitureAgent.execute is inside try/catch: both outcomes go on to the
\* assembly, the orchestrator's `completed` event and updateJob(completed)
FurnitureDone(ok) ==
  /\ pc = "awaitFurniture"
  /\ ~hung
  /\ UNCHANGED << postVars, otherVars >>
  /\ furniture' = ok
  /\ rejected' = IF ok THEN rejected ELSE rejected \cup {"FurnitureAgent"}
  /\ LET st == EmitAll(Block, << AgentComplete("FurnitureAgent"),
                                 OrchCompleted(finalScore, converged, Len(iterations)) >>)
     IN IF st.threw
        THEN /\ Catch("write failed", st)
             /\ UNCHANGED result
        ELSE /\ progress' = st.prog
             /\ received' = st.rcv
             /\ emitted' = st.log
             /\ status' = IF stored THEN "completed" ELSE status
             /\ result' = IF stored THEN OrchestrationResult(ok) ELSE result
             /\ pc' = "terminal"
             /\ UNCHANGED error
  /\ UNCHANGED << stored, expired, i, iterations, currentPlan, planScore,
                  finalScore, converged, costData, sseClients, nextSub, conn, sink,
                  attachedAt, agentRuns >>

\* broadcastSSE(completed) of the runner, still inside its try block
Terminal ==
  /\ pc = "terminal"
  /\ UNCHANGED << postVars, otherVars >>
  /\ LET ev == TerminalCompleted(OrchestrationResult(furniture))
         w  == broadcastSSE(ev, received)
         st == [rcv |-> w.rcv, log |-> Append(emitted, ev), prog |-> progress,
                threw |-> w.threw]
     IN IF st.threw
        THEN Catch("write failed", st)
        ELSE /\ received' = st.rcv
             /\ emitted' = st.log
             /\ pc' = "done"
             /\ UNCHANGED << status, error, progress >>
  /\ UNCHANGED << stored, result, expired, orchVars, sseClients, nextSub, conn,
                  sink, attachedAt, agentRuns, rejected >>

\* more than TTL_MS pass after createdAt.  getJob reads the age only of a job
\* that is not running, so the moment matters only up to the status it meets:
\* running (the last await of a run) or terminal
Expire ==
  /\ pc \in {"awaitFurniture", "done"}
  /\ UNCHANGED << postVars, otherVars >>
  /\ stored
  /\ ~expired
  /\ expired' = TRUE
  /\ UNCHANGED << pc, jobVars, orchVars, hubVars, emitted, agentRuns, rejected >>

\* --------------------------------------------- GET /generate/:jobId/stream
Attach ==
  /\ Quiescent
  /\ UNCHANGED << postVars, otherVars >>
  /\ nextSub \in Subs
  /\ nextSub' = nextSub + 1
  /\ attachedAt' = [attachedAt EXCEPT ![nextSub] = Len(emitted)]
  /\ IF ~stored \/ GetJobDeletes
     THEN /\ stored' = FALSE
          /\ conn' = [conn EXCEPT ![nextSub] = "notfound"]
          /\ UNCHANGED << received, sseClients >>
     ELSE /\ stored' = stored
          /\ IF status = "completed" /\ result # NoResult
             THEN /\ received' = [received EXCEPT ![nextSub] =
                                    << Connected(status), TerminalCompleted(result) >>]
                  /\ conn' = [conn EXCEPT ![nextSub] = "ended"]
                  /\ UNCHANGED sseClients
             ELSE IF status = "failed"
             THEN /\ received' = [received EXCEPT ![nextSub] =
                                    << Connected(status), ErrorEvent(error) >>]
                  /\ conn' = [conn EXCEPT ![nextSub] = "ended"]
                  /\ UNCHANGED sseClients
             ELSE /\ received' = [received EXCEPT ![nextSub] = << Connected(status) >>]
                  /\ sseClients' = addSSEClient(sseClients, nextSub)
                  /\ conn' = [conn EXCEPT ![nextSub] = "open"]
  /\ UNCHANGED << pc, status, error, result, progress, expired, orchVars, sink,
                  emitted, agentRuns, rejected >>

\* req.on('close'): the client went away; nothing refers to its Response
\* any more, so what was written to it is forgotten
Close(s) ==
  /\ Quiescent
  /\ UNCHANGED << postVars, otherVars >>
  /\ conn[s] = "open"
  /\ sseClients' = removeSSEClient(sseClients, s)
  /\ conn' = [conn EXCEPT ![s] = "closed"]
  /\ received' = [received EXCEPT ![s] = << >>]
  /\ attachedAt' = [attachedAt EXCEPT ![s] = 0]
  /\ UNCHANGED << pc, jobVars, expired, orchVars, nextSub, sink, emitted,
                  agentRuns, rejected >>

\* the connection of a registered client breaks: from now on a write to it
\* is lost ("dead") or raises an exception ("throws"); what the client got
\* before the break is no longer followed
SinkFail(s, how) ==
  /\ pc \in AwaitLabels \cup {"terminal"}
  /\ UNCHANGED << postVars, otherVars >>
  /\ conn[s] = "open"
  /\ sink[s] = "ok"
  /\ sink' = [sink EXCEPT ![s] = how]
  /\ received' = [received EXCEPT ![s] = << >>]
  /\ attachedAt' = [attachedAt EXCEPT ![s] = 0]
  /\ UNCHANGED << pc, jobVars, expired, orchVars, sseClients, nextSub, conn,
                  emitted, agentRuns, rejected >>

\* ------------------------------------------- the environment of one run
\* a cancel request for the running job.  The repository has no route and no
\* flag for it; the request is what section 5 of the specification describes
RequestCancel ==
  /\ pc \in AwaitLabels
  /\ status = "running"
  /\ ~cancelFlag
  /\ cancelFlag' = TRUE
  /\ UNCHANGED << runVars, postVars, hung, storeVars, callVars, scoreVars,
                  areaVars, vastuVars, regVars, dirVars, altVars >>

\* the LLM call behind the await never answers: ai.models.generateContent is
\* awaited without a deadline, a timer or an abort signal, so the promise
\* stays pending and the continuation of the await never runs
Hang ==
  /\ pc \in AwaitLabels
  /\ ~hung
  /\ hung' = TRUE
  /\ UNCHANGED << runVars, postVars, cancelFlag, storeVars, callVars, scoreVars,
                  areaVars, vastuVars, regVars, dirVars, altVars >>

\* ------------------------------------------- the job store as a map of jobs
JobIds == 1..(MAX_SESSIONS + 1)

MaxTime == TTL_MS + 1

\* evicted is the key createJob deleted to make room, 0 when it deleted none
NoOp == [op |-> "none", jobId |-> 0, ret |-> "none", evicted |-> 0]

\* position of jobId in the map, 0 when it has no entry
IndexOf(js, jobId) ==
  IF \E k \in 1..Len(js) : js[k].jobId = jobId
  THEN CHOOSE k \in 1..Len(js) : js[k].jobId = jobId
  ELSE 0

\* jobs.delete(jobId)
DeleteKey(js, jobId) == SelectSeq(js, LAMBDA e : e.jobId # jobId)

\* jobs.set(jobId, job): an existing key keeps its place
SetKey(js, job) ==
  IF IndexOf(js, job.jobId) # 0
  THEN [js EXCEPT ![IndexOf(js, job.jobId)] = job]
  ELSE Append(js, job)

\* [...jobs.entries()].sort(by createdAt)[0][0]: the sort is stable, so among
\* the entries with the smallest createdAt it is the first one inserted
OldestKey(js) ==
  LET k == CHOOSE k \in 1..Len(js) :
             /\ \A m \in 1..Len(js) : js[k].createdAt <= js[m].createdAt
             /\ \A m \in 1..(k - 1) : js[m].createdAt > js[k].createdAt
  IN js[k].jobId

\* a createJob that never evicts
EvictNothing(js) == js

\* the eviction of createJob: at capacity the oldest entry is deleted
EvictOldest(js) ==
  IF Len(js) >= MAX_SESSIONS THEN DeleteKey(js, OldestKey(js)) ELSE js

createJob(jobId) ==
  /\ jobs' = SetKey(EvictOldest(jobs),
                    [jobId |-> jobId, status |-> "pending", createdAt |-> now])
  /\ lastOp' = [NoOp EXCEPT !.op = "createJob", !.jobId = jobId, !.ret = "job",
                            !.evicted = IF Len(EvictOldest(jobs)) < Len(jobs)
                                        THEN OldestKey(jobs) ELSE 0]
  /\ UNCHANGED << now, notStore >>

getJob(jobId) ==
  LET k == IndexOf(jobs, jobId)
  IN /\ IF k # 0 /\ now - jobs[k].createdAt > TTL_MS /\ jobs[k].status # "running"
        THEN /\ jobs' = DeleteKey(jobs, jobId)
             /\ lastOp' = [NoOp EXCEPT !.op = "getJob", !.jobId = jobId]
        ELSE /\ jobs' = jobs
             /\ lastOp' = [NoOp EXCEPT !.op = "getJob", !.jobId = jobId,
                                           !.ret = IF k = 0 THEN "none" ELSE "job"]
     /\ UNCHANGED << now, notStore >>

\* updateJob(jobId, {status: st})
updateJob(jobId, st) ==
  LET k == IndexOf(jobs, jobId)
  IN /\ jobs' = IF k # 0 THEN [jobs EXCEPT ![k].status = st] ELSE jobs
     /\ lastOp' = [NoOp EXCEPT !.op = "updateJob", !.jobId = jobId]
     /\ UNCHANGED << now, notStore >>

deleteJob(jobId) ==
  /\ jobs' = DeleteKey(jobs, jobId)
  /\ lastOp' = [NoOp EXCEPT !.op = "deleteJob", !.jobId = jobId]
  /\ UNCHANGED << now, notStore >>

\* half an hour passes
Tick ==
  /\ now < MaxTime
  /\ now' = now + 1
  /\ lastOp' = [NoOp EXCEPT !.op = "tick"]
  /\ UNCHANGED << jobs, notStore >>

StoreNext ==
  \/ \E jobId \in JobIds : createJob(jobId)
  \/ \E jobId \in JobIds : getJob(jobId)
  \/ \E jobId \in JobIds, st \in {"running", "completed", "failed"} :
       updateJob(jobId, st)
  \/ \E jobId \in JobIds : deleteJob(jobId)
  \/ Tick

\* ------------------------------------- one agent's LLM call (model router,
\* generateStructuredContent, BaseAgent.wrapResult)
Roles == {"input", "spatial", "critic", "refinement", "cost", "furniture"}

\* routerConfig[role].model
getModelConfig(role) ==
  CASE role = "input"      -> "gemini-3-flash-preview"
    [] role = "spatial"    -> "gemini-3-pro-preview"
    [] role = "critic"     -> "gemini-3-pro-preview"
    [] role = "refinement" -> "gemini-3-pro-preview"
    [] role = "cost"       -> "gemini-3-flash-preview"
    [] role = "furniture"  -> "gemini-3-flash-preview"

\* fallbackMap[model], << >> when the model has no entry
fallbackMap(model) ==
  CASE model = "gemini-3-pro-preview"   -> << "gemini-2.5-pro", "gemini-2.5-flash" >>
    [] model = "gemini-3-flash-preview" -> << "gemini-2.5-flash" >>
    [] model = "gemini-2.5-pro"         -> << "gemini-2.5-flash" >>
    [] OTHER -> << >>

\* what one ai.models.generateContent call can end in: a text that parses, a
\* rejection, a response without text, a text that JSON.parse rejects
Outcomes == {"ok", "throws", "empty", "badjson"}

NoCall == [role |-> "", phase |-> "idle", idx |-> 0, producer |-> "",
           error |-> << >>, tried |-> << >>]

\* agent.execute: getModelConfig(this.role), then the call of the configured model
Execute(role) ==
  /\ call.phase = "idle"
  /\ call' = [NoCall EXCEPT !.role = role, !.phase = "primary"]
  /\ UNCHANGED << completeModel, notCall >>

\* the try block of generateStructuredContent; every failure, the thrown
\* 'No response text' included, lands in the catch block with the fallbacks
PrimaryAnswers(out) ==
  /\ call.phase = "primary"
  /\ LET model == getModelConfig(call.role)
         tried == Append(call.tried, << model, out >>)
     IN call' = IF out = "ok"
                THEN [call EXCEPT !.phase = "returned", !.producer = model,
                                  !.tried = tried]
                ELSE IF fallbackMap(model) = << >>
                THEN [call EXCEPT !.phase = "thrown", !.error = << model, out >>,
                                  !.tried = tried]
                ELSE [call EXCEPT !.phase = "fallback", !.idx = 1,
                                  !.error = << model, out >>, !.tried = tried]
  /\ UNCHANGED << completeModel, notCall >>

\* a fallback loop that ends by throwing the error of the last fallback
FallbackAnswersLastError(out) ==
  /\ call.phase = "fallback"
  /\ LET fallbacks == fallbackMap(getModelConfig(call.role))
         model     == fallbacks[call.idx]
         tried     == Append(call.tried, << model, out >>)
     IN call' = IF out = "ok"
                THEN [call EXCEPT !.phase = "returned", !.producer = model,
                                  !.tried = tried]
                ELSE IF call.idx = Len(fallbacks)
                THEN [call EXCEPT !.phase = "thrown", !.error = << model, out >>,
                                  !.tried = tried]
                ELSE [call EXCEPT !.idx = @ + 1, !.tried = tried]
  /\ UNCHANGED << completeModel, notCall >>

\* one round of the for-of loop over the fallbacks: a parsed text is
\* returned, no text continues, an exception is logged; after the last
\* fallback the original error is thrown
FallbackAnswers(out) ==
  /\ call.phase = "fallback"
  /\ LET fallbacks == fallbackMap(getModelConfig(call.role))
         model     == fallbacks[call.idx]
         tried     == Append(call.tried, << model, out >>)
     IN call' = IF out = "ok"
                THEN [call EXCEPT !.phase = "returned", !.producer = model,
                                  !.tried = tried]
                ELSE IF call.idx = Len(fallbacks)
                THEN [call EXCEPT !.phase = "thrown", !.tried = tried]
                ELSE [call EXCEPT !.idx = @ + 1, !.tried = tried]
  /\ UNCHANGED << completeModel, notCall >>

\* wrapResult: metadata.modelUsed is the model of the router's configuration
wrapResult(role) == [success |-> TRUE, modelUsed |-> getModelConfig(role)]

\* the agent returns wrapResult(...) and the orchestrator emits
\* agent_complete with model: result.metadata.modelUsed
AgentCompleteEmitted ==
  /\ call.phase = "returned"
  /\ completeModel' = wrapResult(call.role).modelUsed
  /\ call' = [call EXCEPT !.phase = "reported"]
  /\ UNCHANGED notCall

CallNext ==
  \/ \E role \in Roles : Execute(role)
  \/ \E out \in Outcomes : PrimaryAnswers(out)
  \/ \E out \in Outcomes : FallbackAnswers(out)
  \/ AgentCompleteEmitted

\* ------------------------------------------------------- scorePlan on its own
\* regulatoryScore and vastuScore as the validators produce them
ValidatorScores == {0, 5, 10}

\* spatialEfficiency and overallConfidence as decoded from the critic's
\* answer: the response schema says NUMBER and nothing more
CriticScores == {-5, 0, 7, 10, 15}

ApplyScorePlan ==
  /\ scoreOut = NoScore
  /\ scoreOut' = scorePlan(scoreIn[1], scoreIn[2], scoreIn[3], scoreIn[4])
  /\ UNCHANGED << scoreIn, notScore >>

ScoreNext == ApplyScorePlan

\* ------------------------------------------------- the two built-up areas
RoomTypes == {"room", "circulation", "outdoor", "setback", "service"}

RoomAreas == {4, 9}

RECURSIVE SumAreas(_)
SumAreas(rs) == IF rs = << >> THEN 0 ELSE Head(rs).area + SumAreas(Tail(rs))

\* SpatialAgent.execute: rooms of type room or service
PlanBuiltUpArea(rs) ==
  SumAreas(SelectSeq(rs, LAMBDA r : r.type = "room" \/ r.type = "service"))

\* validateRegulatory: buildingRooms are the rooms of type room, circulation
\* or service
RegulatoryBuiltUpArea(rs) ==
  SumAreas(SelectSeq(rs, LAMBDA r : r.type = "room" \/ r.type = "circulation"
                                    \/ r.type = "service"))

\* the Spatial agent builds the FloorPlanGraph from the rooms
SpatialTotals ==
  /\ planBuiltUp = -1
  /\ planBuiltUp' = PlanBuiltUpArea(areaRooms)
  /\ UNCHANGED << areaRooms, regBuiltUp, notArea >>

\* the orchestrator hands currentPlan.rooms to validateRegulatory
RegulatoryTotals ==
  /\ planBuiltUp # -1
  /\ regBuiltUp = -1
  /\ regBuiltUp' = RegulatoryBuiltUpArea(areaRooms)
  /\ UNCHANGED << areaRooms, planBuiltUp, notArea >>

AreaNext == SpatialTotals \/ RegulatoryTotals

\* ------------------------------------------------------ the Vastu validator
\* penalties are in hundredths and the strictness is in hundredths, so a
\* product penalty * strictness and the score are in ten-thousandths
VastuRule(id, appliesTo, severity, penalty, dirs, preferred) ==
  [id |-> id, appliesTo |-> appliesTo, severity |-> severity, penalty |-> penalty,
   dirs |-> dirs, preferred |-> preferred]

\* the table vastuRules: check passes when the room's direction is one of
\* dirs (preferred) or none of dirs (forbidden)
vastuRules ==
  << VastuRule("VASTU_001", {"kitchen", "bathroom", "toilet", "staircase", "storage"},
               "critical", 15, {"CENTER"}, FALSE),
     VastuRule("VASTU_002", {"master_bedroom"}, "major", 10, {"SW"}, TRUE),
     VastuRule("VASTU_003", {"kitchen"}, "major", 10, {"SE", "NW"}, TRUE),
     VastuRule("VASTU_004", {"living_room"}, "minor", 5, {"NE", "N", "E"}, TRUE),
     VastuRule("VASTU_005", {"pooja_room"}, "major", 10, {"NE", "E", "N"}, TRUE),
     VastuRule("VASTU_006", {"bathroom", "toilet"}, "critical", 12, {"NE", "CENTER"}, FALSE),
     VastuRule("VASTU_007", {"entrance", "foyer"}, "major", 8, {"N", "E", "NE"}, TRUE),
     VastuRule("VASTU_008", {"children_bedroom"}, "minor", 5, {"W", "NW", "E"}, TRUE),
     VastuRule("VASTU_009", {"guest_bedroom"}, "minor", 4, {"NW"}, TRUE),
     VastuRule("VASTU_010", {"study_room"}, "minor", 4, {"W", "E", "NE"}, TRUE),
     VastuRule("VASTU_011", {"dining_room"}, "minor", 3, {"W", "NW", "E"}, TRUE),
     VastuRule("VASTU_012", {"staircase"}, "major", 8, {"NE", "CENTER"}, FALSE),
     VastuRule("VASTU_013", {"balcony"}, "minor", 3, {"N", "E", "NE"}, TRUE),
     VastuRule("VASTU_014", {"storage"}, "minor", 3, {"SW", "S", "W"}, TRUE) >>

\* rule.check(room).pass
RulePasses(rule, room) ==
  IF rule.preferred THEN room.direction \in rule.dirs
  ELSE room.direction \notin rule.dirs

\* the inner loop of validateVastu for one room, from rule k on
RECURSIVE ApplyRules(_, _, _)
ApplyRules(room, k, acc) ==
  IF k > Len(vastuRules) THEN acc
  ELSE LET rule == vastuRules[k]
           pass == RulePasses(rule, room)
           item == [rule |-> rule.id,
                    status |-> IF pass THEN "PASS"
                               ELSE IF rule.severity = "minor" THEN "WARN" ELSE "FAIL"]
       IN IF room.classification \notin rule.appliesTo
          THEN ApplyRules(room, k + 1, acc)
          ELSE ApplyRules(room, k + 1,
                 [complianceItems |-> Append(acc.complianceItems, item),
                  violations |-> IF pass THEN acc.violations
                                 ELSE Append(acc.violations,
                                             [ruleId |-> rule.id,
                                              severity |-> rule.severity,
                                              penalty |-> rule.penalty])])

\* the outer loop over the rooms
RECURSIVE CheckRooms(_, _)
CheckRooms(rs, acc) ==
  IF rs = << >> THEN acc ELSE CheckRooms(Tail(rs), ApplyRules(Head(rs), 1, acc))

\* violations.reduce((sum, v) => sum + v.penalty * vastuStrictness, 0)
RECURSIVE TotalPenalty(_, _)
TotalPenalty(vs, strictness) ==
  IF vs = << >> THEN 0
  ELSE Head(vs).penalty * strictness + TotalPenalty(Tail(vs), strictness)

Max0(x) == IF x < 0 THEN 0 ELSE x

VastuDisabled ==
  [violations |-> << >>, score |-> 10000,
   complianceItems |-> << [rule |-> "Vastu Compliance", status |-> "PASS"] >>]

\* a validator whose penalties ignore the strictness
validateVastuUnscaled(rooms, strictness) ==
  IF strictness = 0 THEN VastuDisabled
  ELSE LET acc == CheckRooms(rooms, [complianceItems |-> << >>, violations |-> << >>])
       IN [violations |-> acc.violations,
           score |-> Max0(10000 - TotalPenalty(acc.violations, 100)),
           complianceItems |-> acc.complianceItems]

validateVastu(rooms, strictness) ==
  IF strictness = 0 THEN VastuDisabled
  ELSE LET acc == CheckRooms(rooms, [complianceItems |-> << >>, violations |-> << >>])
       IN [violations |-> acc.violations,
           score |-> Max0(10000 - TotalPenalty(acc.violations, strictness)),
           complianceItems |-> acc.complianceItems]

\* the strictness coefficients of None, Slightly, Moderately, Strictly
Strictness == {0, 25, 50, 100}

\* rooms of the plans given to validateVastu
VastuRoomKinds ==
  { [classification |-> "bathroom",       direction |-> "CENTER"],
    [classification |-> "staircase",      direction |-> "CENTER"],
    [classification |-> "kitchen",        direction |-> "SE"],
    [classification |-> "master_bedroom", direction |-> "N"],
    [classification |-> "living_room",    direction |-> "S"] }

\* the sequences of at most n elements of S
SeqsUpTo(S, n) == UNION { [1..k -> S] : k \in 0..n }

NoVastu == [violations |-> << >>, score |-> -1, complianceItems |-> << >>]

ValidateVastu(strictness) ==
  /\ vastuStrictness' = strictness
  /\ vastuResult' = validateVastu(vastuRooms, strictness)
  /\ UNCHANGED << vastuRooms, notVastu >>

VastuNext == \E strictness \in Strictness : ValidateVastu(strictness)

\* ------------------------------------------------ the regulatory validator
\* lengths are in units of 0.05 m and areas in squares of that unit (400 to
\* the square metre); minimum room sizes are in tenths of a square metre,
\* ratios in percent, the score in hundredths

\* municipalConfigs['National Building Code'].minRoomSizes, 0 = no entry
minRoomSizes(classification) ==
  CASE classification = "master_bedroom"   -> 120
    [] classification = "bedroom"          -> 90
    [] classification = "children_bedroom" -> 90
    [] classification = "guest_bedroom"    -> 90
    [] classification = "kitchen"          -> 60
    [] classification = "living_room"      -> 120
    [] classification = "dining_room"      -> 80
    [] classification = "bathroom"         -> 30
    [] classification = "toilet"           -> 20
    [] classification = "pooja_room"       -> 30
    [] classification = "study_room"       -> 70
    [] classification = "corridor"         -> 15
    [] OTHER -> 0

\* municipalConfigs['National Building Code']
municipalConfig ==
  [maxFAR |-> 200, maxGroundCoverage |-> 60, minCorridorWidth |-> 24,
   minVentilationRatio |-> 10,
   defaultSetbacks |-> [front |-> 60, left |-> 30, right |-> 30, rear |-> 40]]

\* a plot of 12 m by 15 m
plotGeometry == [width |-> 240, depth |-> 300]

\* enrichRoomsWithDirection: area = width * height
RegRoom(name, type, classification, x, y, width, height, features) ==
  [name |-> name, type |-> type, classification |-> classification,
   x |-> x, y |-> y, width |-> width, height |-> height,
   area |-> width * height, features |-> features]

Window(width) == [type |-> "window", width |-> width]

\* rooms of the plans given to validateRegulatory: a master bedroom of 16
\* sq.m with a 2 m window, a bedroom of 7.5 sq.m without windows, a living
\* room of 120 sq.m from the plot's corner with a 1 m window, a corridor
\* 1.2 m wide, a corridor 1 m wide, a store room (no minimum size), a
\* staircase, and a setback strip
RegRoomKinds ==
  { RegRoom("Master", "room", "master_bedroom", 30, 60, 80, 80, << Window(40) >>),
    RegRoom("Bed", "room", "bedroom", 30, 60, 50, 60, << >>),
    RegRoom("Living", "room", "living_room", 0, 0, 240, 200,
            << [type |-> "door", width |-> 20], Window(20) >>),
    RegRoom("Passage", "circulation", "corridor", 30, 60, 24, 100, << >>),
    RegRoom("Lane", "circulation", "corridor", 30, 60, 20, 100, << >>),
    RegRoom("Store", "room", "storage", 110, 60, 40, 40, << >>),
    RegRoom("Stairs", "service", "staircase", 150, 60, 40, 60, << >>),
    RegRoom("Front", "setback", "entrance", 0, 0, 240, 60, << >>) }

\* config.floors || 1
Floors == {1, 3}

Violation(category, severity, room) ==
  [category |-> category, severity |-> severity, room |-> room]

Item(rule, room, st) == [rule |-> rule, room |-> room, status |-> st]

\* the four comparisons of the setback loop: issues.length > 0
Intrudes(room, plot, setbacks) ==
  \/ room.x < setbacks.left - 2
  \/ room.x + room.width > plot.width - setbacks.right + 2
  \/ room.y < setbacks.front - 2
  \/ room.y + room.height > plot.depth - setbacks.rear + 2

\* 1. the setback loop over buildingRooms and the 'Setback Compliance' item
SetbackCheck(buildingRooms, plot, setbacks) ==
  LET bad == SelectSeq(buildingRooms, LAMBDA r : Intrudes(r, plot, setbacks))
  IN [violations |-> [k \in 1..Len(bad) |->
                        Violation("setback", "critical", bad[k].name)],
      complianceItems |-> << Item("Setback Compliance", "",
                                  IF bad = << >> THEN "PASS" ELSE "FAIL") >>]

\* 2. far = builtUpArea * floors / plotArea <= maxFAR
FarCheck(acc, builtUpArea, plotArea, floors, cfg) ==
  LET farPass == builtUpArea * floors * 100 <= cfg.maxFAR * plotArea
  IN [violations |-> IF farPass THEN acc.violations
                     ELSE Append(acc.violations, Violation("far", "critical", "")),
      complianceItems |-> Append(acc.complianceItems,
                                 Item("Floor Area Ratio (FAR/FSI)", "",
                                      IF farPass THEN "PASS" ELSE "FAIL"))]

\* 3. coverage = builtUpArea / plotArea <= maxGroundCoverage
CoverageCheck(acc, builtUpArea, plotArea, cfg) ==
  LET coveragePass == builtUpArea * 100 <= cfg.maxGroundCoverage * plotArea
  IN [violations |-> IF coveragePass THEN acc.violations
                     ELSE Append(acc.violations, Violation("coverage", "major", "")),
      complianceItems |-> Append(acc.complianceItems,
                                 Item("Ground Coverage", "",
                                      IF coveragePass THEN "PASS" ELSE "WARN"))]

\* 4. the loop over the rooms of type room: room.area < minSize - 0.1
RECURSIVE RoomSizeCheck(_, _)
RoomSizeCheck(rs, acc) ==
  IF rs = << >> THEN acc
  ELSE LET room    == Head(rs)
           minSize == minRoomSizes(room.classification)
       IN RoomSizeCheck(Tail(rs),
            IF minSize # 0 /\ room.area < (minSize - 1) * 40
            THEN [violations |-> Append(acc.violations,
                                        Violation("room_size", "major", room.name)),
                  complianceItems |-> Append(acc.complianceItems,
                                             Item("Min Room Size", room.name, "FAIL"))]
            ELSE IF minSize # 0
            THEN [acc EXCEPT !.complianceItems =
                               Append(@, Item("Min Room Size", room.name, "PASS"))]
            ELSE acc)

Min(a, b) == IF a < b THEN a ELSE b

\* 5. the loop over the rooms of type circulation:
\* minDim < minCorridorWidth - 0.05
RECURSIVE CorridorCheck(_, _, _)
CorridorCheck(rs, acc, cfg) ==
  IF rs = << >> THEN acc
  ELSE LET room   == Head(rs)
           minDim == Min(room.width, room.height)
       IN CorridorCheck(Tail(rs),
            IF minDim < cfg.minCorridorWidth - 1
            THEN [violations |-> Append(acc.violations,
                                        Violation("corridor_width", "major", room.name)),
                  complianceItems |-> Append(acc.complianceItems,
                                             Item("Corridor Width", room.name, "FAIL"))]
            ELSE acc,
            cfg)

habitableClassifications ==
  { "master_bedroom", "bedroom", "children_bedroom", "guest_bedroom",
    "kitchen", "living_room", "dining_room", "study_room" }

RECURSIVE SumWidths(_)
SumWidths(ws) == IF ws = << >> THEN 0 ELSE Head(ws).width + SumWidths(Tail(ws))

\* 6. the loop over the habitable rooms: a window of width w has the area
\* w * 1.2, so ratio < minVentilationRatio is 2400 * w < percent * area
RECURSIVE VentilationCheck(_, _, _)
VentilationCheck(rs, acc, cfg) ==
  IF rs = << >> THEN acc
  ELSE LET room    == Head(rs)
           windows == SelectSeq(room.features, LAMBDA f : f.type = "window")
           low     == IF room.area > 0
                      THEN 2400 * SumWidths(windows) < cfg.minVentilationRatio * room.area
                      ELSE TRUE
       IN VentilationCheck(Tail(rs),
            IF low /\ Len(windows) > 0
            THEN [acc EXCEPT !.complianceItems =
                               Append(@, Item("Ventilation", room.name, "WARN"))]
            ELSE IF Len(windows) = 0 /\ room.type = "room"
            THEN [acc EXCEPT !.complianceItems =
                               Append(@, Item("Ventilation", room.name, "WARN"))]
            ELSE acc,
            cfg)

\* a penalty map with one penalty for every severity
penaltyMapFlat(severity) == 10

penaltyMap(severity) ==
  CASE severity = "critical" -> 20
    [] severity = "major"    -> 10
    [] severity = "minor"    -> 3

RECURSIVE SumPenalties(_)
SumPenalties(vs) ==
  IF vs = << >> THEN 0 ELSE penaltyMap(Head(vs).severity) + SumPenalties(Tail(vs))

validateRegulatory(rooms, plot, cfg, setbacks, floors) ==
  LET plotArea      == plot.width * plot.depth
      buildingRooms == SelectSeq(rooms, LAMBDA r : r.type = "room"
                                   \/ r.type = "circulation" \/ r.type = "service")
      builtUpArea   == RegulatoryBuiltUpArea(rooms)
      c1 == SetbackCheck(buildingRooms, plot, setbacks)
      c2 == FarCheck(c1, builtUpArea, plotArea, floors, cfg)
      c3 == CoverageCheck(c2, builtUpArea, plotArea, cfg)
      c4 == RoomSizeCheck(SelectSeq(rooms, LAMBDA r : r.type = "room"), c3)
      c5 == CorridorCheck(SelectSeq(rooms, LAMBDA r : r.type = "circulation"), c4, cfg)
      c6 == VentilationCheck(
              SelectSeq(rooms, LAMBDA r : r.classification \in habitableClassifications),
              c5, cfg)
  IN [violations |-> c6.violations,
      score |-> Max0(100 - SumPenalties(c6.violations)),
      setbackCompliance |-> c1.violations = << >>,
      complianceItems |-> c6.complianceItems]

NoRegulatory == [violations |-> << >>, score |-> -1, setbackCompliance |-> FALSE,
                 complianceItems |-> << >>]

\* the orchestrator calls validateRegulatory(currentPlan.rooms,
\* spec.plotGeometry, spec.municipalConfig, spec.setbackRequirements, floors)
ValidateRegulatory(floors) ==
  /\ regResult = NoRegulatory
  /\ regFloors' = floors
  /\ regResult' = validateRegulatory(regRooms, plotGeometry, municipalConfig,
                                     municipalConfig.defaultSetbacks, floors)
  /\ UNCHANGED << regRooms, notReg >>

RegNext == \E floors \in Floors : ValidateRegulatory(floors)

\* ------------------------------------------------------- computeDirection
\* grid[row][col], rows and columns counted from 0 in the source
grid == << << "NW", "N", "NE" >>,
           << "W", "CENTER", "E" >>,
           << "SW", "S", "SE" >> >>

\* centerX < plotWidth / 3 is 3 * centerX < plotWidth, and
\* centerX < colThird * 2 is 3 * centerX < 2 * plotWidth
computeDirection(centerX, centerY, plotWidth, plotDepth) ==
  LET col == IF 3 * centerX < plotWidth THEN 0
             ELSE IF 3 * centerX < 2 * plotWidth THEN 1 ELSE 2
      row == IF 3 * centerY < plotDepth THEN 0
             ELSE IF 3 * centerY < 2 * plotDepth THEN 1 ELSE 2
  IN grid[row + 1][col + 1]

\* centroids inside, outside, next to and on the gridlines of plotGeometry
DirXs == { -10, 0, 79, 80, 81, 120, 159, 160, 161, 240, 250 }
DirYs == { -10, 0, 99, 100, 101, 150, 199, 200, 201, 300 }

\* enrichRoomsWithDirection calls computeDirection(centerX, centerY,
\* plotGeometry.width, plotGeometry.depth)
ComputeDirection ==
  /\ dirResult = ""
  /\ dirResult' = computeDirection(dirPoint[1], dirPoint[2],
                                   plotGeometry.width, plotGeometry.depth)
  /\ UNCHANGED << dirPoint, notDir >>

\* the next room is enriched
NextRoom(x, y) ==
  /\ dirResult # ""
  /\ dirPoint' = << x, y >>
  /\ dirResult' = ""
  /\ UNCHANGED notDir

DirNext ==
  \/ ComputeDirection
  \/ \E x \in DirXs, y \in DirYs : NextRoom(x, y)

\* ---------------------------------------- POST /api/generate-alternatives
\* the indices of the strategies array
Strategies == 0..2

\* an event of the alternatives stream; `alternatives` is the list carried
\* by alternatives_completed
AltEvent(t, idx) == [type |-> t, index |-> idx, alternatives |-> << >>]

\* result.finalPlan of the orchestration of strategy idx
AltPlan(idx) == [NoPlan EXCEPT !.rooms = idx]

\* res.write on the handler's Response: a broken socket either loses the
\* data or makes the call throw
AltWrite(st, ev) ==
  IF st.threw THEN st
  ELSE IF altSink = "throws" THEN [st EXCEPT !.threw = TRUE]
  ELSE [st EXCEPT !.stream = Append(@, ev)]

\* the synchronous start of the map callback of index idx: alternative_start,
\* then orchestrate runs up to its first await and emits agent_start
AltStart(st, idx) ==
  AltWrite(AltWrite(st, AltEvent("alternative_start", idx)),
           AltEvent("alternative_progress", idx))

\* the handler up to `await Promise.all(promises)`
PostAlternatives(w, d) ==
  /\ altHandler = "idle"
  /\ IF Falsy(w) \/ Falsy(d)
     THEN /\ altRes' = "json400"
          /\ altHandler' = "returned"
          /\ UNCHANGED << altPc, altResults, altStream, altProgress, jobs, lastOp >>
     ELSE LET st0 == AltWrite([stream |-> altStream, threw |-> FALSE],
                              AltEvent("connected", -1))
              st  == AltStart(AltStart(AltStart(st0, 0), 1), 2)
          IN /\ jobs' = SetKey(EvictOldest(jobs),
                               [jobId |-> 1, status |-> "pending", createdAt |-> now])
             /\ lastOp' = [NoOp EXCEPT !.op = "createJob", !.jobId = 1, !.ret = "job"]
             /\ altRes' = "open"
             /\ altStream' = st.stream
             /\ altPc' = [idx \in Strategies |-> "running"]
             /\ altProgress' = [idx \in Strategies |-> 1]
             /\ altHandler' = "awaiting"
             /\ UNCHANGED altResults
  /\ UNCHANGED << altSink, notAlt >>

\* the end of the callback of index idx: st holds what its try block wrote;
\* an exception lands in its catch block, which writes alternative_error,
\* and an exception of that write rejects the callback's promise
AltSettle(idx, st) ==
  LET caught == AltWrite([st EXCEPT !.threw = FALSE], AltEvent("alternative_error", idx))
      end    == IF st.threw THEN caught ELSE st
  IN /\ altStream' = end.stream
     /\ altPc' = [altPc EXCEPT ![idx] = IF end.threw THEN "rejected" ELSE "fulfilled"]

\* orchestrate of index idx emits a further progress event; when the write
\* throws the exception leaves orchestrate
AltProgressEvent(idx) ==
  /\ altPc[idx] = "running"
  /\ altProgress[idx] < MaxProgress
  /\ LET st == AltWrite([stream |-> altStream, threw |-> FALSE],
                        AltEvent("alternative_progress", idx))
     IN IF st.threw
        THEN /\ AltSettle(idx, st)
             /\ UNCHANGED altProgress
        ELSE /\ altStream' = st.stream
             /\ altProgress' = [altProgress EXCEPT ![idx] = @ + 1]
             /\ UNCHANGED altPc
  /\ UNCHANGED << altHandler, altResults, altRes, altSink, storeVars, notAlt >>

\* orchestrate of index idx resolves: results[idx] = result.finalPlan, then
\* alternative_complete
AltResolves(idx) ==
  /\ altPc[idx] = "running"
  /\ altResults' = [altResults EXCEPT ![idx] = AltPlan(idx)]
  /\ AltSettle(idx, AltWrite([stream |-> altStream, threw |-> FALSE],
                             AltEvent("alternative_complete", idx)))
  /\ UNCHANGED << altHandler, altRes, altSink, altProgress, storeVars, notAlt >>

\* orchestrate of index idx rejects
AltRejects(idx) ==
  /\ altPc[idx] = "running"
  /\ AltSettle(idx, [stream |-> altStream, threw |-> TRUE])
  /\ UNCHANGED << altHandler, altResults, altRes, altSink, altProgress,
                  storeVars, notAlt >>

\* a combinator that is fulfilled by the first fulfilled promise
PromiseAny(pcs) == \E idx \in Strategies : pcs[idx] = "fulfilled"

\* Promise.all(promises) is fulfilled when every promise is
PromiseAll(pcs) == \A idx \in Strategies : pcs[idx] = "fulfilled"

\* results.filter(Boolean): the plans without the holes, in index order
FilterBoolean(results) ==
  SelectSeq([k \in 1..3 |-> results[k - 1]], LAMBDA p : p # NoPlan)

\* the continuation of `await Promise.all`: alternatives_completed, res.end();
\* an exception of the write lands in the outer catch, which does nothing
\* once the headers are sent
AltAllDone ==
  /\ altHandler = "awaiting"
  /\ PromiseAll(altPc)
  /\ LET st == AltWrite([stream |-> altStream, threw |-> FALSE],
                        [AltEvent("alternatives_completed", -1)
                           EXCEPT !.alternatives = FilterBoolean(altResults)])
     IN /\ altStream' = st.stream
        /\ altRes' = IF st.threw THEN altRes ELSE "ended"
        /\ altHandler' = IF st.threw THEN "caught" ELSE "returned"
  /\ UNCHANGED << altPc, altResults, altSink, altProgress, storeVars, notAlt >>

\* Promise.all rejects with the first rejected promise: the outer catch
AltAnyRejected ==
  /\ altHandler = "awaiting"
  /\ \E idx \in Strategies : altPc[idx] = "rejected"
  /\ altHandler' = "caught"
  /\ UNCHANGED << altPc, altResults, altStream, altRes, altSink, altProgress,
                  storeVars, notAlt >>

\* the client's socket breaks while the stream is open
AltSinkFail(how) ==
  /\ altRes = "open"
  /\ altSink = "ok"
  /\ altSink' = how
  /\ UNCHANGED << altHandler, altPc, altResults, altStream, altRes, altProgress,
                  storeVars, notAlt >>

AltNext ==
  \/ \E w \in Dims, d \in Dims : PostAlternatives(w, d)
  \/ \E idx \in Strategies : AltProgressEvent(idx)
  \/ \E idx \in Strategies : AltResolves(idx)
  \/ \E idx \in Strategies : AltRejects(idx)
  \/ AltAllDone
  \/ AltAnyRejected
  \/ \E how \in { "dead", "throws" } : AltSinkFail(how)

\* ----------------------------------------------------------- specification
RunInit ==
  /\ pc = "idle"
  /\ stored = FALSE
  /\ status = "none"
  /\ error = ""
  /\ result = NoResult
  /\ progress = NoProgress
  /\ expired = FALSE
  /\ i = 0
  /\ iterations = << >>
  /\ currentPlan = -1
  /\ planScore = << 0, 0 >>
  /\ finalScore = NoScore
  /\ converged = FALSE
  /\ costData = [bom |-> "none", cost |-> "none"]
  /\ furniture = FALSE
  /\ sseClients = << >>
  /\ nextSub = 1
  /\ conn = [s \in Subs |-> "none"]
  /\ sink = [s \in Subs |-> "ok"]
  /\ received = [s \in Subs |-> << >>]
  /\ attachedAt = [s \in Subs |-> 0]
  /\ emitted = << >>
  /\ agentRuns = << >>
  /\ rejected = {}
  /\ reply = 0
  /\ config = [width |-> << >>, depth |-> << >>]
  /\ cancelFlag = FALSE
  /\ hung = FALSE

StoreIdle ==
  /\ jobs = << >>
  /\ now = 0
  /\ lastOp = NoOp

CallIdle ==
  /\ call = NoCall
  /\ completeModel = ""

ScoreIdle ==
  /\ scoreIn = << 0, 0, 0, 0 >>
  /\ scoreOut = NoScore

AreaIdle ==
  /\ areaRooms = << >>
  /\ planBuiltUp = -1
  /\ regBuiltUp = -1

VastuIdle ==
  /\ vastuRooms = << >>
  /\ vastuStrictness = -1
  /\ vastuResult = NoVastu

RegIdle ==
  /\ regRooms = << >>
  /\ regFloors = 1
  /\ regResult = NoRegulatory

DirIdle ==
  /\ dirPoint = << 0, 0 >>
  /\ dirResult = ""

AltIdle ==
  /\ altHandler = "idle"
  /\ altPc = [idx \in Strategies |-> "idle"]
  /\ altResults = [idx \in Strategies |-> NoPlan]
  /\ altStream = << >>
  /\ altRes = "none"
  /\ altSink = "ok"
  /\ altProgress = [idx \in Strategies |-> 0]

\* the regulatory validator, computeDirection and the alternatives handler
\* at rest
PartsIdle == RegIdle /\ DirIdle /\ AltIdle

Init == RunInit /\ StoreIdle /\ CallIdle /\ ScoreIdle /\ AreaIdle /\ VastuIdle /\ PartsIdle

\* the steps of a run after POST /generate was accepted, and of its streams
Run ==
  \/ \E ok \in BOOLEAN : InputDone(ok)
  \/ \E ok \in BOOLEAN, ps \in PlanCases : SpatialDone(ok, ps)
  \/ \E ok \in BOOLEAN, cs \in CriticCases : CriticDone(ok, cs)
  \/ \E ok \in BOOLEAN, ps \in PlanCases : RefineDone(ok, ps)
  \/ \E ok \in BOOLEAN : CostDone(ok)
  \/ \E ok \in BOOLEAN : FurnitureDone(ok)
  \/ Terminal
  \/ Expire
  \/ Attach
  \/ \E s \in Subs : Close(s)
  \/ \E s \in Subs, how \in {"dead", "throws"} : SinkFail(s, how)

Next ==
  \/ \E w \in RunDims, d \in RunDims : Generate(w, d)
  \/ Run

Spec == Init /\ [][Next]_vars

\* POST /generate with any body, then the run
PostNext ==
  \/ \E w \in Dims, d \in Dims : Generate(w, d)
  \/ Run

PostSpec == Init /\ [][PostNext]_vars

\* a run during which a cancel request can arrive
CancelNext == Next \/ RequestCancel

CancelSpec == Init /\ [][CancelNext]_vars

\* a run during which an LLM call can stay unanswered.  The event loop runs
\* the continuation of an await once its promise settled, and a call that
\* is not hung settles; the runner's last broadcast follows at once
LiveNext == Next \/ Hang

LiveSpec ==
  /\ Init
  /\ [][LiveNext]_vars
  /\ WF_vars(\E ok \in BOOLEAN : InputDone(ok))
  /\ WF_vars(\E ok \in BOOLEAN, ps \in PlanCases : SpatialDone(ok, ps))
  /\ WF_vars(\E ok \in BOOLEAN, cs \in CriticCases : CriticDone(ok, cs))
  /\ WF_vars(\E ok \in BOOLEAN, ps \in PlanCases : RefineDone(ok, ps))
  /\ WF_vars(\E ok \in BOOLEAN : CostDone(ok))
  /\ WF_vars(\E ok \in BOOLEAN : FurnitureDone(ok))
  /\ WF_vars(Terminal)

StoreSpec == Init /\ [][StoreNext]_vars

CallSpec == Init /\ [][CallNext]_vars

ScoreInit ==
  /\ RunInit /\ StoreIdle /\ CallIdle /\ AreaIdle /\ VastuIdle /\ PartsIdle
  /\ scoreIn \in ValidatorScores \X ValidatorScores \X CriticScores \X CriticScores
  /\ scoreOut = NoScore

ScoreSpec == ScoreInit /\ [][ScoreNext]_vars

AreaInit ==
  /\ RunInit /\ StoreIdle /\ CallIdle /\ ScoreIdle /\ VastuIdle /\ PartsIdle
  /\ areaRooms \in SeqsUpTo([type : RoomTypes, area : RoomAreas], MaxRooms)
  /\ planBuiltUp = -1
  /\ regBuiltUp = -1

AreaSpec == AreaInit /\ [][AreaNext]_vars

VastuInit ==
  /\ RunInit /\ StoreIdle /\ CallIdle /\ ScoreIdle /\ AreaIdle /\ PartsIdle
  /\ vastuRooms \in SeqsUpTo(VastuRoomKinds, MaxRooms)
  /\ vastuStrictness = -1
  /\ vastuResult = NoVastu

VastuSpec == VastuInit /\ [][VastuNext]_vars

RegInit ==
  /\ RunInit /\ StoreIdle /\ CallIdle /\ ScoreIdle /\ AreaIdle /\ VastuIdle
  /\ DirIdle /\ AltIdle
  /\ regRooms \in SeqsUpTo(RegRoomKinds, MaxRooms)
  /\ regFloors = 1
  /\ regResult = NoRegulatory

RegSpec == RegInit /\ [][RegNext]_vars

DirSpec == Init /\ [][DirNext]_vars

AltSpec == Init /\ [][AltNext]_vars

TypeOK ==
  /\ pc \in AwaitLabels \cup {"idle", "terminal", "done"}
  /\ status \in {"none", "running", "completed", "failed"}
  /\ i \in 0..MAX_ITERATIONS
  /\ nextSub \in 1..(MaxSubs + 1)

\* ------------------------------------------------------------- properties
Last(seq) == seq[Len(seq)]

Terminals(seq) == SelectSeq(seq, IsTerminal)

Completions(seq) == SelectSeq(seq, LAMBDA e : e.type = "completed")

NoSinkBroken == \A c \in Subs : sink[c] = "ok"

FatalAgents == {"SpatialAgent", "CriticAgent", "RefinementAgent"}

\* C1: when the run is over and no sink broke, a subscriber that attached
\* before the end and is still attached has received exactly one terminal
\* event (`completed` or `error`), and it is the last event it received.
ExactlyOneTerminalEventLast ==
  (pc = "done" /\ NoSinkBroken) =>
    \A s \in Subs :
      conn[s] = "open" =>
        /\ Len(Terminals(received[s])) = 1
        /\ IsTerminal(Last(received[s]))

\* C2: the iteration loop records iterations 1, 2, ... in order, at most
\* MAX_ITERATIONS of them; an iteration passes exactly when its final score
\* is >= the threshold (equality passes); only the last recorded iteration
\* can pass; no iteration_start is emitted after a passing score_update; and
\* once the loop is left at least one iteration is recorded, the last of
\* which passed unless MAX_ITERATIONS were run.
IterationLoopStops ==
  /\ Len(iterations) <= MAX_ITERATIONS
  /\ \A k \in 1..Len(iterations) :
       /\ iterations[k].iteration = k
       /\ iterations[k].score.passesThreshold
            = (iterations[k].score.finalScore >= DEFAULT_THRESHOLD)
       /\ (k < Len(iterations) => ~iterations[k].score.passesThreshold)
  /\ \A j \in 1..Len(emitted), k \in 1..Len(emitted) :
       (j < k /\ emitted[j].type = "score_update" /\ emitted[j].passes)
         => emitted[k].type # "iteration_start"
  /\ \A k \in 1..Len(emitted) :
       emitted[k].type = "iteration_start" => emitted[k].iteration \in 1..MAX_ITERATIONS
  /\ (pc \in {"awaitCost", "awaitFurniture", "terminal"} \/ status = "completed") =>
       /\ Len(iterations) >= 1
       /\ \/ Last(iterations).score.passesThreshold
          \/ Len(iterations) = MAX_ITERATIONS

\* a run that stopped after its second iteration on a score equal to the threshold
LoopStoppedOnTie ==
  /\ pc = "done"
  /\ status = "completed"
  /\ Len(iterations) = 2
  /\ Last(iterations).score.finalScore = DEFAULT_THRESHOLD

\* C3: once the job's status is completed or failed it never changes again.
TerminalStatusIsFinal ==
  [][(status \in {"completed", "failed"}) => (status' = status)]_vars

\* C4: when the Spatial, Critic or Refinement agent fails, the stored job is
\* failed with that agent's error message and the last event handed to the
\* hub is the `error` event carrying that message, which every registered
\* subscriber receives as its last event when no registered sink is broken;
\* and at any time the job is failed exactly when an `error` event has been
\* broadcast, that event being the last one and carrying the job's error.
FatalFailureReportedBothWays ==
  /\ (rejected \cap FatalAgents # {} /\ stored) =>
       /\ pc = "done"
       /\ status = "failed"
       /\ error \in rejected \cap FatalAgents
       /\ Last(emitted) = ErrorEvent(error)
       /\ NoSinkBroken =>
            \A s \in Subs : conn[s] = "open" => Last(received[s]) = ErrorEvent(error)
  /\ (status = "failed") <=> (\E k \in 1..Len(emitted) : emitted[k].type = "error")
  /\ \A k \in 1..Len(emitted) :
       emitted[k].type = "error" => (k = Len(emitted) /\ emitted[k].message = error)

\* the Critic failed in the second iteration while a client was streaming
CriticFailureStreamed ==
  /\ pc = "done"
  /\ rejected = {"CriticAgent"}
  /\ Len(iterations) = 1
  /\ \E s \in Subs : conn[s] = "open" /\ Last(received[s]) = ErrorEvent("CriticAgent")

\* C5: when the Cost agent fails the run still ends with status completed,
\* and the final plan has an empty BOM and a zero cost range.
CostFailureIsRecovered ==
  (pc = "done" /\ "CostAgent" \in rejected) =>
    /\ status = "completed"
    /\ result.finalPlan.bom = "empty"
    /\ result.finalPlan.cost = "zero"

\* C6: after the job completed or failed the hub holds no open subscriber
\* for it: the server closed every stream registered at that moment.
NoSubscriberAfterTermination ==
  pc = "done" => (sseClients = << >> /\ \A s \in Subs : conn[s] # "open")

\* C7: a subscriber that attaches after completion gets `connected` and one
\* terminal event and is not registered; together with a first connection
\* held until `completed`, exactly two `completed` payloads are observed and
\* they are equal.
ReplayEqualsOriginalTerminal ==
  \A s1 \in Subs, s2 \in Subs :
    (pc = "done" /\ status = "completed" /\ conn[s1] = "open" /\ sink[s1] = "ok"
       /\ conn[s2] = "ended") =>
      /\ Len(received[s2]) = 2
      /\ received[s2][1].type = "connected"
      /\ \A k \in 1..Len(sseClients) : sseClients[k] # s2
      /\ Len(Completions(received[s1])) + Len(Completions(received[s2])) = 2
      /\ \A a \in 1..Len(Completions(received[s1])) :
           Completions(received[s1])[a] = received[s2][2]

\* C8: a subscriber attached while the job runs, whose own sink is intact,
\* has received `connected` and then exactly the events emitted since it
\* attached, in emission order.
MidRunSubscriberGetsAllLaterEvents ==
  \A s \in Subs :
    (conn[s] = "open" /\ sink[s] = "ok") =>
      received[s] = << Connected("running") >>
                    \o SubSeq(emitted, attachedAt[s] + 1, Len(emitted))

\* C9: every broadcast delivers its events to each registered subscriber
\* whose own sink is intact, whatever happens to the other sinks.
BrokenSinkDoesNotAffectOthers ==
  [][\A s \in Subs :
       (conn[s] = "open" /\ sink[s] = "ok" /\ Len(emitted') > Len(emitted)) =>
         received'[s] = received[s] \o SubSeq(emitted', Len(emitted) + 1, Len(emitted'))]_vars

\* C10: a job only becomes failed because an agent other than the
\* best-effort Furniture agent failed, never because a sink write failed.
WriteFailureDoesNotFailRun ==
  status = "failed" => rejected \ {"FurnitureAgent"} # {}

\* C11: getJob on a job created more than TTL_MS ago whose status is
\* completed or failed returns none; getJob on a running job returns the job
\* whatever its age; and a running job leaves the store only by a deleteJob
\* of its id (or by a createJob that overwrites that very id).
RunningJobIsNeverRemoved ==
  [][\A k \in 1..Len(jobs) :
       LET job == jobs[k]
           got == lastOp'.op = "getJob" /\ lastOp'.jobId = job.jobId
       IN /\ (got /\ now - job.createdAt > TTL_MS
                  /\ job.status \in {"completed", "failed"})
               => (lastOp'.ret = "none" /\ IndexOf(jobs', job.jobId) = 0)
          /\ (got /\ job.status = "running")
               => (lastOp'.ret = "job" /\ IndexOf(jobs', job.jobId) # 0)
          /\ (job.status = "running"
                /\ ~(lastOp'.op \in {"deleteJob", "createJob"}
                       /\ lastOp'.jobId = job.jobId))
               => IndexOf(jobs', job.jobId) # 0]_vars

\* C12: when createJob is called on a full store, the job it evicts is not
\* running and has the smallest createdAt among the jobs that are not running.
EvictionTakesOldestNotRunning ==
  [][(lastOp'.op = "createJob" /\ lastOp'.evicted # 0) =>
       LET victim == jobs[IndexOf(jobs, lastOp'.evicted)]
       IN /\ victim.status # "running"
          /\ \A m \in 1..Len(jobs) :
               jobs[m].status # "running" => victim.createdAt <= jobs[m].createdAt]_vars

\* C13: the job store never holds more than MAX_SESSIONS jobs.
StoreWithinCapacity == Len(jobs) <= MAX_SESSIONS

\* createJob was called on a full store and made room for the new job
CreatedAtCapacity ==
  /\ lastOp.op = "createJob"
  /\ lastOp.evicted # 0
  /\ IndexOf(jobs, lastOp.jobId) # 0
  /\ Len(jobs) = MAX_SESSIONS

\* C14: once the cancel flag of a running job is set, the orchestrator
\* starts no further agent.
CancelStopsTheRun ==
  [][cancelFlag => agentRuns' = agentRuns]_vars

\* C15: a job that is running eventually is completed or failed.
DispatchedJobTerminates ==
  (status = "running") ~> (status \in {"completed", "failed"})

Positive(x) == IF x = << >> THEN FALSE ELSE x[1] > 0

\* C16: a POST /generate whose width or depth is missing or not positive is
\* answered with status 400, creates no job and starts no orchestration.
InvalidDimensionsAreRejected ==
  (reply # 0 /\ ~(Positive(config.width) /\ Positive(config.depth))) =>
    /\ reply = 400
    /\ ~stored
    /\ status = "none"
    /\ agentRuns = << >>

\* C17: the `model` field of an agent's agent_complete event names the model
\* whose answer the call returned, also when that was a fallback model.
AgentCompleteNamesProducer ==
  call.phase = "reported" => completeModel = call.producer

Clamp01(x) == IF x < 0 THEN 0 ELSE IF x > 10 THEN 10 ELSE x

\* C18: the final score lies in [0,1] and is 0.4*reg + 0.3*vastu +
\* 0.2*spatial + 0.1*confidence of the inputs clamped to [0,1].
FinalScoreIsClamped ==
  scoreOut # NoScore =>
    /\ scoreOut.finalScore \in 0..100
    /\ scoreOut.finalScore = 4 * Clamp01(scoreIn[1]) + 3 * Clamp01(scoreIn[2])
                             + 2 * Clamp01(scoreIn[3]) + 1 * Clamp01(scoreIn[4])

\* C19: the built-up area validateRegulatory uses equals the builtUpArea of
\* the plan.
RegulatorUsesPlanBuiltUpArea ==
  regBuiltUp # -1 => regBuiltUp = planBuiltUp

\* the applications (room, rule) of a rule to a room it applies to and that
\* the room fails
FailingApplications(rooms) ==
  { a \in (1..Len(rooms)) \X (1..Len(vastuRules)) :
      /\ rooms[a[1]].classification \in vastuRules[a[2]].appliesTo
      /\ ~RulePasses(vastuRules[a[2]], rooms[a[1]]) }

RECURSIVE SumOver(_, _)
SumOver(S, strictness) ==
  IF S = {} THEN 0
  ELSE LET a == CHOOSE a \in S : TRUE
       IN vastuRules[a[2]].penalty * strictness + SumOver(S \ {a}, strictness)

\* C20: with strictness 0 validateVastu returns score 1, no violations and a
\* single PASS item; with 0 < s <= 1 the score is max(0, 1 - sum of w*s over
\* the failing rule applications), and no larger strictness gives the same
\* plan a larger score.
VastuScoreFollowsStrictness ==
  /\ vastuStrictness = 0 =>
       /\ vastuResult.score = 10000
       /\ vastuResult.violations = << >>
       /\ Len(vastuResult.complianceItems) = 1
       /\ vastuResult.complianceItems[1].status = "PASS"
  /\ vastuStrictness > 0 =>
       /\ vastuResult.score
            = Max0(10000 - SumOver(FailingApplications(vastuRooms), vastuStrictness))
       /\ Len(vastuResult.violations) = Cardinality(FailingApplications(vastuRooms))
       /\ \A t \in Strictness :
            t >= vastuStrictness =>
              validateVastu(vastuRooms, t).score <= vastuResult.score

\* a plan whose penalties exceed 1 at full strictness: the score stops at 0
VastuScoreReachedZero ==
  /\ vastuStrictness = 100
  /\ vastuResult.score = 0
  /\ SumOver(FailingApplications(vastuRooms), 100) > 10000

\* the number of times the Refinement agent was invoked
RefinementRuns == Len(SelectSeq(agentRuns, LAMBDA a : a = "RefinementAgent"))

\* the run has left the iteration loop by its break or by its last pass
LoopLeft == pc \in { "awaitCost", "awaitFurniture", "terminal" } \/ status = "completed"

\* C21 as stated: a run that ended with k recorded iterations invoked the
\* Refinement agent exactly k-1 times.
RefinementRunsOneLessThanIterations ==
  (pc = "done" /\ iterations # << >>) => RefinementRuns = Len(iterations) - 1

\* C21: the j-th invocation of the Refinement agent follows the recorded
\* iteration j, whose score does not pass and which is not the last one; an
\* iteration after which the loop is left passes or is the last one; a run
\* with k recorded iterations has invoked the agent k-1 times when it left the
\* loop, and k-1 or k times when it ended before that.
RefinementFollowsFailedIteration ==
  /\ RefinementRuns <= Len(iterations)
  /\ iterations # << >> => RefinementRuns >= Len(iterations) - 1
  /\ \A j \in 1..RefinementRuns :
       /\ iterations[j].iteration = j
       /\ ~iterations[j].score.passesThreshold
       /\ j < MAX_ITERATIONS
  /\ LoopLeft =>
       /\ iterations # << >>
       /\ RefinementRuns = Len(iterations) - 1
       /\ \/ Last(iterations).score.passesThreshold
          \/ Len(iterations) = MAX_ITERATIONS
  /\ pc = "awaitRefine" => RefinementRuns = Len(iterations)

\* a completed run of three iterations and two refinements
RefinedTwiceAndCompleted ==
  /\ status = "completed"
  /\ Len(iterations) = MAX_ITERATIONS
  /\ RefinementRuns = MAX_ITERATIONS - 1

\* the event j places after position k of the log is of type t, unless the
\* run ended before it or in the catch block
Follows(k, j, t) ==
  (k + j <= Len(emitted) /\ emitted[k + j].type # "error") => emitted[k + j].type = t

\* C22: in every iteration the events come in the order iteration_start, the
\* violation_update of the regulatory validator, the violation_update of the
\* cultural validator, the Critic's agent_start and agent_complete,
\* score_update.
IterationEventsInOrder ==
  \A k \in 1..Len(emitted) :
    emitted[k].type = "iteration_start" =>
      /\ Follows(k, 1, "violation_update")
      /\ Follows(k, 2, "violation_update")
      /\ Follows(k, 3, "agent_start")
      /\ Follows(k, 4, "agent_complete")
      /\ Follows(k, 5, "score_update")
      /\ k + 1 <= Len(emitted) /\ emitted[k + 1].type = "violation_update"
           => emitted[k + 1].message = "regulatory"
      /\ k + 2 <= Len(emitted) /\ emitted[k + 2].type = "violation_update"
           => emitted[k + 2].message = "vastu"
      /\ k + 3 <= Len(emitted) /\ emitted[k + 3].type = "agent_start"
           => emitted[k + 3].agent = "CriticAgent"
      /\ k + 4 <= Len(emitted) /\ emitted[k + 4].type = "agent_complete"
           => emitted[k + 4].agent = "CriticAgent"

\* the primary model of the call, then its static fallback list
Chain(role) == << getModelConfig(role) >> \o fallbackMap(getModelConfig(role))

\* C23: after a failed primary call the models of the primary model's
\* fallback list are tried in list order and no others; the first success is
\* returned and ends the call; when all fail the error thrown is the primary
\* call's.
FallbacksInListOrder ==
  call.phase # "idle" =>
    /\ Len(call.tried) <= Len(Chain(call.role))
    /\ \A k \in 1..Len(call.tried) : call.tried[k][1] = Chain(call.role)[k]
    /\ \A k \in 1..(Len(call.tried) - 1) : call.tried[k][2] # "ok"
    /\ call.phase = "fallback" =>
         /\ call.tried # << >>
         /\ Last(call.tried)[2] # "ok"
         /\ Len(call.tried) < Len(Chain(call.role))
    /\ call.phase \in { "returned", "reported" } =>
         /\ Last(call.tried)[2] = "ok"
         /\ call.producer = Last(call.tried)[1]
    /\ call.phase = "thrown" =>
         /\ Len(call.tried) = Len(Chain(call.role))
         /\ \A k \in 1..Len(call.tried) : call.tried[k][2] # "ok"
         /\ call.error = call.tried[1]

\* both fallbacks of the Spatial agent's model failed, the last one in
\* another way than the primary call
AllFallbacksFailedDifferently ==
  /\ call.phase = "thrown"
  /\ call.role = "spatial"
  /\ Len(call.tried) = 3
  /\ call.tried[3][2] # call.tried[1][2]

\* how many elements of the sequence seq satisfy Test
Count(seq, Test(_)) == Len(SelectSeq(seq, Test))

\* the items of regResult with the rule `rule`
ItemsOf(rule) == SelectSeq(regResult.complianceItems, LAMBDA it : it.rule = rule)

\* C24: validateRegulatory emits exactly one item for setbacks, one for FAR,
\* one for ground coverage, one for each room of type room with a configured
\* minimum size and one for each room of type circulation, pass or fail.
OneItemPerCheck ==
  regResult # NoRegulatory =>
    /\ Len(ItemsOf("Setback Compliance")) = 1
    /\ Len(ItemsOf("Floor Area Ratio (FAR/FSI)")) = 1
    /\ Len(ItemsOf("Ground Coverage")) = 1
    /\ Len(ItemsOf("Min Room Size"))
         = Count(regRooms, LAMBDA r : r.type = "room"
                                      /\ minRoomSizes(r.classification) # 0)
    /\ Len(ItemsOf("Corridor Width"))
         = Count(regRooms, LAMBDA r : r.type = "circulation")

\* the violations of regResult with the severity sev
Severe(sev) == Count(regResult.violations, LAMBDA v : v.severity = sev)

\* the building rooms of the plan
Building(r) == r.type \in { "room", "circulation", "service" }

\* the number of violations the plan earns, counted check by check
ExpectedViolations ==
  LET builtUp == SumAreas(SelectSeq(regRooms, Building))
      plot    == plotGeometry.width * plotGeometry.depth
  IN Count(regRooms, LAMBDA r : Building(r)
             /\ (r.x < 28 \/ r.x + r.width > 212 \/ r.y < 58 \/ r.y + r.height > 262))
     + (IF builtUp * regFloors > 2 * plot THEN 1 ELSE 0)
     + (IF 5 * builtUp > 3 * plot THEN 1 ELSE 0)
     + Count(regRooms, LAMBDA r : r.type = "room"
               /\ minRoomSizes(r.classification) # 0
               /\ r.area < 40 * (minRoomSizes(r.classification) - 1))
     + Count(regRooms, LAMBDA r : r.type = "circulation"
               /\ Min(r.width, r.height) < 23)

\* C26: the score is max(0, 1 - (0.20*c + 0.10*m + 0.03*n)) for c critical,
\* m major and n minor violations; setback and FAR violations are critical,
\* coverage, room-size and corridor violations are major; a ventilation
\* shortfall adds a WARN item and no violation.
RegulatoryScoreFollowsSeverities ==
  regResult # NoRegulatory =>
    /\ regResult.score
         = Max0(100 - (20 * Severe("critical") + 10 * Severe("major")
                       + 3 * Severe("minor")))
    /\ \A k \in 1..Len(regResult.violations) :
         LET v == regResult.violations[k]
         IN /\ v.category \in { "setback", "far" } => v.severity = "critical"
            /\ v.category \in { "coverage", "room_size", "corridor_width" }
                 => v.severity = "major"
            /\ v.category \in { "setback", "far", "coverage", "room_size",
                                "corridor_width" }
    /\ Len(regResult.violations) = ExpectedViolations
    /\ \A k \in 1..Len(regResult.complianceItems) :
         regResult.complianceItems[k].rule = "Ventilation"
           => regResult.complianceItems[k].status = "WARN"

\* a plan with critical and major violations and a ventilation warning whose
\* score is strictly between 0 and 1
MixedViolationsScored ==
  /\ regResult # NoRegulatory
  /\ Severe("critical") > 0
  /\ Severe("major") > 0
  /\ Len(ItemsOf("Ventilation")) > 0
  /\ regResult.score = 100 - (20 * Severe("critical") + 10 * Severe("major"))
  /\ regResult.score > 0

\* the sectors of column col, and of row row, of the grid
ColumnOf(col) == { grid[row][col + 1] : row \in 1..3 }
RowOf(row) == { grid[row + 1][col] : col \in 1..3 }

\* C25: computeDirection returns one of the nine sectors, and a centroid on
\* a gridline (centerX = plotW/3 or 2*plotW/3, centerY = plotD/3 or
\* 2*plotD/3) is assigned to the lower-index column or row.
GridlineFallsInLowerCell ==
  dirResult # "" =>
    /\ dirResult \in UNION { ColumnOf(col) : col \in 0..2 }
    /\ 3 * dirPoint[1] = plotGeometry.width => dirResult \in ColumnOf(0)
    /\ 3 * dirPoint[1] = 2 * plotGeometry.width => dirResult \in ColumnOf(1)
    /\ 3 * dirPoint[2] = plotGeometry.depth => dirResult \in RowOf(0)
    /\ 3 * dirPoint[2] = 2 * plotGeometry.depth => dirResult \in RowOf(1)

\* C27: the final plan is built from the plan recorded in the last
\* IterationRecord: once the loop is left, currentPlan is the plan that
\* record validated and scored, and the rooms and compliance items of the
\* stored result come from that record's plan and iteration.
FinalPlanIsLastScoredPlan ==
  /\ LoopLeft =>
       /\ iterations # << >>
       /\ currentPlan = Last(iterations).plan
       /\ finalScore = Last(iterations).score
  /\ result # NoResult =>
       /\ result.finalPlan.rooms = Last(iterations).plan
       /\ result.finalPlan.iteration = Last(iterations).iteration
       /\ result.finalScore = Last(iterations).score
       /\ result.iterations = Len(iterations)

\* a completed run whose final plan is the second refinement, scored in the
\* third iteration
RefinedPlanCompleted ==
  /\ status = "completed"
  /\ result # NoResult
  /\ result.finalPlan.rooms = 2
  /\ Last(iterations).iteration = 3

\* C28: whenever the job is readable from the store, its result is present
\* exactly when its status is completed, its error exactly when its status
\* is failed, and it never has both a result and the status failed.
ResultAndErrorMatchStatus ==
  stored =>
    /\ (result # NoResult) <=> (status = "completed")
    /\ (error # "") <=> (status = "failed")
    /\ ~(result # NoResult /\ status = "failed")

\* C29: while the job is running, once iteration_start of iteration n has
\* been processed the progress snapshot reports an iteration >= n.
ProgressIterationNeverDecreases ==
  (stored /\ status = "running") =>
    \A k \in 1..Len(emitted) :
      emitted[k].type = "iteration_start" => progress.iteration >= emitted[k].iteration

\* the positions of the events of type t for index idx in the stream
AltPositions(t, idx) ==
  { k \in 1..Len(altStream) : altStream[k].type = t /\ altStream[k].index = idx }

\* the positions of the outcome events of index idx
AltOutcomes(idx) ==
  AltPositions("alternative_complete", idx) \cup AltPositions("alternative_error", idx)

\* the plans of the indices with an alternative_complete event, in index order
CompletedPlans ==
  SelectSeq([k \in 1..3 |-> IF AltPositions("alternative_complete", k - 1) # {}
                            THEN AltPlan(k - 1) ELSE NoPlan],
            LAMBDA p : p # NoPlan)

====
